---- MODULE Spec2Model ----
(***************************************************************************)
(* Model of scripts/jw_translation.py: the text layout of                  *)
(* TextString.prepare() and the insert_* operations that place encoded    *)
(* records in the ROM image and patch its pointer tables.                  *)
(*                                                                         *)
(* A text is a sequence of tokens.  A token is a literal character ("a",   *)
(* " ") or an angle-bracket token ("<br>", "<FF>", "<var0>", ...).  The    *)
(* literal characters of the model never include "<" or ">", so the        *)
(* substring operations of the source (split, count, endswith) act on     *)
(* whole tokens.                                                           *)
(***************************************************************************)
EXTENDS Integers, Sequences, FiniteSets, TLC

VARIABLES
    op,             \* the subcommand that is running (docopt dispatch, lines 384-479)
    pc,             \* position of the running subcommand
    text,           \* TextString.text
    max_length,     \* TextString.max_length
    prepared_text,  \* the value returned by prepare()
    length,         \* TextString.length
    segs,           \* per <br>-segment trace of prepare(): words, output, automatic wraps
    rom,            \* the writes made to the ROM file so far, in order
    messages,       \* insert_translation: the TextStrings processed so far
    message_index,  \* insert_translation: message_index
    total_length,   \* insert_translation: total_length
    data_bank,      \* insert_translation: data_bank
    ranges,         \* insert_enemies / insert_signs: DATA_RANGES
    total_size,     \* insert_windows / insert_enemies / insert_signs: total_size
    current_data_range, \* insert_enemies / insert_signs: current_data_range (0-based)
    base_offset,    \* insert_enemies / insert_signs: base_offset
    placed,         \* insert_enemies / insert_signs: the records written so far
    iter,           \* number of records the running loop has taken so far
    failed,         \* the record (by iteration number) the run stopped on, 0 if none
    reported,       \* the "Not enough space" message was printed
    data_existing,  \* merge: data_existing, section -> location -> record
    data_new,       \* merge: data_new, section -> location -> record
    pending,        \* merge: the <<section2, loc2>> pairs the loops have yet to take
    merged          \* merge: per pair taken, the records met, the result, the prompts

layoutVars == <<text, max_length, prepared_text, length, segs>>
bankVars == <<messages, message_index, total_length, data_bank>>
regionVars == <<ranges, total_size, current_data_range, base_offset, placed, reported>>
mergeVars == <<data_existing, data_new, pending, merged>>
vars == <<op, pc, layoutVars, rom, bankVars, regionVars, iter, failed, mergeVars>>

(***************************************************************************)
(* Bounds of the model.                                                    *)
(***************************************************************************)
MaxLen == 5
MaxWrapLen == 8
MaxBudget == 3
MaxAgainLen == 4

(***************************************************************************)
(* Constants of the program.                                               *)
(***************************************************************************)
MAX_LENGTH == 17

\* SPECIAL_BYTES, jw_translation.py lines 41-62
SPECIAL_BYTES ==
    ("<var0>" :> 4) @@ ("<character>" :> 4) @@ ("<var1>" :> 4) @@
    ("<var2>" :> 8) @@ ("<item>" :> 8) @@ ("<var3>" :> 4) @@
    ("<var4>" :> 8) @@ ("<enemy>" :> 8) @@ ("<var5>" :> 4) @@
    ("<var6>" :> 4) @@ ("<var7>" :> 4) @@ ("<var8>" :> 4) @@
    ("<amount>" :> 4) @@ ("<var9>" :> 4) @@ ("<gold>" :> 4) @@
    ("<price>" :> 4) @@ ("<FC>" :> 1) @@ ("<FF>" :> 1) @@
    ("<FE>" :> 1) @@ ("<FD>" :> 1)

\* len(token_str) of the angle-bracket tokens: their literal character count
TokenChars ==
    ("<var0>" :> 6) @@ ("<character>" :> 11) @@ ("<var1>" :> 6) @@
    ("<var2>" :> 6) @@ ("<item>" :> 6) @@ ("<var3>" :> 6) @@
    ("<var4>" :> 6) @@ ("<enemy>" :> 7) @@ ("<var5>" :> 6) @@
    ("<var6>" :> 6) @@ ("<var7>" :> 6) @@ ("<var8>" :> 6) @@
    ("<amount>" :> 8) @@ ("<var9>" :> 6) @@ ("<gold>" :> 6) @@
    ("<price>" :> 7) @@ ("<FC>" :> 4) @@ ("<FF>" :> 4) @@
    ("<FE>" :> 4) @@ ("<FD>" :> 4) @@ ("<br>" :> 4)

Terminators == {"<FF>", "<FC>"}
WrapTokens == {"<FE>", "<FD>"}
Whitespace == {" "}

\* the tokens the input texts of the model are made of
Alphabet == {"a", " ", "<br>", "<FF>", "<FC>", "<var0>"}

\* the tokens of the longer input texts, which wrap several times
WrapAlphabet == {"a", " ", "<br>"}

(***************************************************************************)
(* Helpers on sequences.                                                   *)
(***************************************************************************)
RECURSIVE SumSeq(_)
SumSeq(s) == IF s = <<>> THEN 0 ELSE Head(s) + SumSeq(Tail(s))

RECURSIVE Concat(_)
Concat(ss) == IF ss = <<>> THEN <<>> ELSE Head(ss) \o Concat(Tail(ss))

Count(s, t) == Cardinality({i \in 1..Len(s) : s[i] = t})

Range(s) == {s[i] : i \in 1..Len(s)}

\* len(str): the literal character count of a token sequence
StrLen(s) == SumSeq([i \in 1..Len(s) |->
                 IF s[i] \in DOMAIN TokenChars THEN TokenChars[s[i]] ELSE 1])

(***************************************************************************)
(* str.split("<br>"), str.strip(), str.split()                             *)
(***************************************************************************)
RECURSIVE SplitOn(_, _, _)
\* s.split(sep) with the current piece cur already read
SplitOn(s, sep, cur) ==
    IF s = <<>> THEN <<cur>>
    ELSE IF Head(s) = sep THEN <<cur>> \o SplitOn(Tail(s), sep, <<>>)
    ELSE SplitOn(Tail(s), sep, Append(cur, Head(s)))

RECURSIVE LStrip(_)
LStrip(s) == IF s # <<>> /\ Head(s) \in Whitespace THEN LStrip(Tail(s)) ELSE s

RECURSIVE RStrip(_)
RStrip(s) == IF s # <<>> /\ s[Len(s)] \in Whitespace
             THEN RStrip(SubSeq(s, 1, Len(s) - 1)) ELSE s

Strip(s) == RStrip(LStrip(s))

RECURSIVE SplitWords(_, _)
\* s.split(): the maximal runs of non-whitespace, cur being the run in progress
SplitWords(s, cur) ==
    IF s = <<>> THEN (IF cur = <<>> THEN <<>> ELSE <<cur>>)
    ELSE IF Head(s) \in Whitespace
         THEN (IF cur = <<>> THEN <<>> ELSE <<cur>>) \o SplitWords(Tail(s), <<>>)
         ELSE SplitWords(Tail(s), Append(cur, Head(s)))

\* line 89: lines = [line.strip() for line in self.text.split("<br>")]
Lines(t) == LET parts == SplitOn(t, "<br>", <<>>)
            IN [i \in 1..Len(parts) |-> Strip(parts[i])]

(***************************************************************************)
(* prepare(), lines 99-148: one word of a segment.                         *)
(***************************************************************************)
\* TokenAdjust with the occurrences of a token counted once however many there are
TokenAdjustOnce(word, token_str) ==
    IF Count(word, token_str) > 0
    THEN SPECIAL_BYTES[token_str] - TokenChars[token_str]
    ELSE 0

\* lines 104-107 for one token_str of SPECIAL_BYTES
TokenAdjust(word, token_str) ==
    LET count == Count(word, token_str)
    IN IF count > 0
       THEN SPECIAL_BYTES[token_str] * count - TokenChars[token_str] * count
       ELSE 0

RECURSIVE AdjustAll(_, _)
\* line 103: the loop over SPECIAL_BYTES.items(), tokens being the keys left
AdjustAll(word, tokens) ==
    IF tokens = {} THEN 0
    ELSE LET token_str == CHOOSE x \in tokens : TRUE
         IN TokenAdjust(word, token_str) + AdjustAll(word, tokens \ {token_str})

\* lines 102-107: word_char_width (a key that does not occur in the word adds 0)
WordCharWidth(word) ==
    StrLen(word) + AdjustAll(word, DOMAIN SPECIAL_BYTES \cap Range(word))

\* lines 120-127 and 136-143: the wrap token for the current line of the box
WrapToken(line_num_in_box) == IF line_num_in_box = 0 THEN "<FE>" ELSE "<FD>"

\* WrapLine with the line of the box never advanced
WrapLineStuck(line_num_in_box) == 0

\* lines 122, 125, 138, 141: the line of the box after a wrap
WrapLine(line_num_in_box) == IF line_num_in_box = 0 THEN 1 ELSE 0

\* SpaceFits with < for <=
SpaceFitsStrict(cur, w, budget) == cur + 1 + w < budget

\* SpaceFits with the width of the space itself left out
SpaceFitsUncounted(cur, w, budget) == cur + w <= budget

\* line 115: the separating space fits
SpaceFits(cur, w, budget) == cur + 1 + w <= budget

\* line 130: the word fits
WordFits(cur, w, budget) == cur + w <= budget

\* lines 113-127: st is [text, length, line, cur, auto]
BeforeWord(st, word_idx, w, budget) ==
    IF word_idx > 1
    THEN IF SpaceFits(st.cur, w, budget)
         THEN [st EXCEPT !.text = Append(@, " "), !.length = @ + 1, !.cur = @ + 1]
         ELSE [st EXCEPT !.text = Append(@, WrapToken(st.line)),
                         !.auto = Append(@, WrapToken(st.line)),
                         !.line = WrapLine(@),
                         !.length = @ + 1,
                         !.cur = 0]
    ELSE st

\* PlaceWord with a word wider than the budget broken after its first token
PlaceWordSplit(st, word, w, budget) ==
    IF WordFits(st.cur, w, budget)
    THEN [st EXCEPT !.text = @ \o word, !.length = @ + w, !.cur = @ + w]
    ELSE IF st.cur = 0 /\ Len(word) >= 2
         THEN [st EXCEPT !.text = (Append(@, Head(word)) \o <<WrapToken(st.line)>>)
                                      \o Tail(word),
                         !.auto = Append(@, WrapToken(st.line)),
                         !.line = WrapLine(@),
                         !.length = @ + w + 1,
                         !.cur = WordCharWidth(Tail(word))]
         ELSE LET br == IF st.cur > 0
                        THEN [st EXCEPT !.text = Append(@, WrapToken(st.line)),
                                        !.auto = Append(@, WrapToken(st.line)),
                                        !.line = WrapLine(@),
                                        !.length = @ + 1,
                                        !.cur = 0]
                        ELSE st
              IN [br EXCEPT !.text = @ \o word, !.length = @ + w, !.cur = @ + w]

\* lines 129-148
PlaceWord(st, word, w, budget) ==
    IF WordFits(st.cur, w, budget)
    THEN [st EXCEPT !.text = @ \o word, !.length = @ + w, !.cur = @ + w]
    ELSE LET br == IF st.cur > 0
                   THEN [st EXCEPT !.text = Append(@, WrapToken(st.line)),
                                   !.auto = Append(@, WrapToken(st.line)),
                                   !.line = WrapLine(@),
                                   !.length = @ + 1,
                                   !.cur = 0]
                   ELSE st
         IN [br EXCEPT !.text = @ \o word, !.length = @ + w, !.cur = @ + w]

RECURSIVE LayoutWords(_, _, _, _)
\* lines 99-148: the words from word_idx on
LayoutWords(st, words, word_idx, budget) ==
    IF word_idx > Len(words) THEN st
    ELSE LET w == WordCharWidth(words[word_idx])
         IN LayoutWords(PlaceWord(BeforeWord(st, word_idx, w, budget),
                                  words[word_idx], w, budget),
                        words, word_idx + 1, budget)

\* PageBreak without the reset of the line of the box
PageBreakNoReset(acc) ==
    [acc EXCEPT !.text = Append(@, "<FD>"), !.length = @ + 1]

\* lines 150-154: the segment was followed by a <br>
PageBreak(acc) ==
    [acc EXCEPT !.text = Append(@, "<FD>"), !.length = @ + 1, !.line = 0]

RECURSIVE LayoutSegments(_, _, _, _)
\* lines 95-154: acc is [text, length, line, segs]
LayoutSegments(acc, lines, line_idx, budget) ==
    IF line_idx > Len(lines) THEN acc
    ELSE LET words == SplitWords(lines[line_idx], <<>>)
             st == LayoutWords([text |-> <<>>, length |-> 0, line |-> acc.line,
                                cur |-> 0, auto |-> <<>>],
                               words, 1, budget)
             done == [text |-> acc.text \o st.text,
                      length |-> acc.length + st.length,
                      line |-> st.line,
                      segs |-> Append(acc.segs, [out |-> st.text, auto |-> st.auto,
                                                 words |-> words])]
         IN LayoutSegments(IF line_idx < Len(lines) THEN PageBreak(done) ELSE done,
                           lines, line_idx + 1, budget)

\* EndsWithTerminator with the default terminator alone recognized
EndsWithDefaultTerminator(s) == s # <<>> /\ s[Len(s)] = "<FF>"

\* line 161: prepared_text.endswith(("<FF>", "<FC>"))
EndsWithTerminator(s) == s # <<>> /\ s[Len(s)] \in Terminators

\* Terminate with the default terminator appended whatever the text ends in
TerminateAlways(acc) ==
    IF acc.text = <<>>
    THEN [acc EXCEPT !.text = <<"<FF>">>, !.length = 1]
    ELSE [acc EXCEPT !.text = Append(@, "<FF>"), !.length = @ + 1]

\* Terminate with the byte of the terminator of an empty text not counted
TerminateEmptyUncounted(acc) ==
    IF acc.text = <<>>
    THEN [acc EXCEPT !.text = <<"<FF>">>]
    ELSE IF ~EndsWithTerminator(acc.text)
         THEN [acc EXCEPT !.text = Append(@, "<FF>"), !.length = @ + 1]
         ELSE acc

\* lines 157-165
Terminate(acc) ==
    IF acc.text = <<>>
    THEN [acc EXCEPT !.text = <<"<FF>">>, !.length = 1]
    ELSE IF ~EndsWithTerminator(acc.text)
         THEN [acc EXCEPT !.text = Append(@, "<FF>"), !.length = @ + 1]
         ELSE acc

\* TextString.prepare(), lines 79-167
PrepareText(t, budget) ==
    Terminate(LayoutSegments([text |-> <<>>, length |-> 0, line |-> 0, segs |-> <<>>],
                             Lines(t), 1, budget))

(***************************************************************************)
(* The layout engine as a state machine: a TextString is constructed       *)
(* (lines 67-77) and prepare() is called on it.                            *)
(***************************************************************************)
RECURSIVE SeqsUpTo(_, _)
SeqsUpTo(S, n) ==
    IF n = 0 THEN {<<>>}
    ELSE LET shorter == SeqsUpTo(S, n - 1)
         IN shorter \cup {Append(s, x) : s \in {t \in shorter : Len(t) = n - 1}, x \in S}

Texts == SeqsUpTo(Alphabet, MaxLen) \cup SeqsUpTo(WrapAlphabet, MaxWrapLen)
Budgets == 1..MaxBudget

\* the variables a subcommand does not use
LayoutIdle ==
    /\ text = <<>>
    /\ max_length = MAX_LENGTH
    /\ prepared_text = <<>>
    /\ length = 0
    /\ segs = <<>>

MergeIdle ==
    /\ data_existing = <<>>
    /\ data_new = <<>>
    /\ pending = <<>>
    /\ merged = <<>>

BankIdle ==
    /\ messages = <<>>
    /\ message_index = 0
    /\ total_length = 0
    /\ data_bank = 0

RegionIdle ==
    /\ ranges = <<>>
    /\ total_size = 0
    /\ current_data_range = 0
    /\ base_offset = 0
    /\ placed = <<>>
    /\ reported = FALSE

InitPrepare ==
    /\ op = "prepare"
    /\ pc = "constructed"
    /\ text \in Texts
    /\ max_length \in Budgets
    /\ prepared_text = <<>>
    /\ length = 0
    /\ segs = <<>>
    /\ rom = <<>>
    /\ BankIdle
    /\ RegionIdle
    /\ iter = 0
    /\ failed = 0
    /\ MergeIdle

Prepare ==
    /\ op = "prepare"
    /\ pc = "constructed"
    /\ LET r == PrepareText(text, max_length)
       IN /\ prepared_text' = r.text
          /\ length' = r.length
          /\ segs' = r.segs
    /\ pc' = "prepared"
    /\ UNCHANGED <<mergeVars, op, text, max_length, rom, bankVars, regionVars, iter, failed>>

NextPrepare == Prepare

SpecPrepare == InitPrepare /\ [][NextPrepare]_vars

(***************************************************************************)
(* Properties of prepare().                                                *)
(***************************************************************************)
Prepared == op = "prepare" /\ pc = "prepared"

\* the token before the last one, "" when there is none
Penultimate(s) == IF Len(s) >= 2 THEN s[Len(s) - 1] ELSE ""

\* the cost of a marked text recomputed from its tokens alone
TokenCost(t) == IF t \in DOMAIN SPECIAL_BYTES THEN SPECIAL_BYTES[t] ELSE 1
Cost(s) == SumSeq([i \in 1..Len(s) |-> TokenCost(s[i])])

RECURSIVE JoinWith(_, _)
\* the sequences of ss joined by the token sep
JoinWith(ss, sep) ==
    IF ss = <<>> THEN <<>>
    ELSE IF Len(ss) = 1 THEN ss[1]
    ELSE ss[1] \o <<sep>> \o JoinWith(Tail(ss), sep)

SegOuts == [i \in 1..Len(segs) |-> segs[i].out]
SegAutos == [i \in 1..Len(segs) |-> segs[i].auto]

\* the width of the words of a segment joined by single spaces
JoinedWidth(words) ==
    SumSeq([i \in 1..Len(words) |-> WordCharWidth(words[i])]) + (Len(words) - 1)

\* C1 as stated: the output of prepare() ends in a terminator token and the token
\* before that terminator is never a terminator, whatever the author supplied.
C1_ExactlyOneTerminator ==
    Prepared => /\ EndsWithTerminator(prepared_text)
                /\ Penultimate(prepared_text) \notin Terminators

\* C1 amended: the output of prepare() ends in a terminator token, and the token
\* before it is a terminator only when the input text, trailing whitespace
\* ignored, itself ends in those same two terminator tokens.
C1_OneTerminatorUnlessAuthored ==
    Prepared =>
        /\ EndsWithTerminator(prepared_text)
        /\ Penultimate(prepared_text) \in Terminators =>
               LET s == Strip(text)
               IN /\ Len(s) >= 2
                  /\ s[Len(s)] = prepared_text[Len(prepared_text)]
                  /\ s[Len(s) - 1] = Penultimate(prepared_text)

\* an author-terminated text whose output keeps the author's single terminator
C1_Witness ==
    /\ Prepared
    /\ EndsWithTerminator(Strip(text))
    /\ Len(text) >= 2
    /\ prepared_text = text
    /\ Penultimate(prepared_text) \notin Terminators

\* C2: after prepare() the length field equals the cost of the returned text
\* recomputed from its tokens: 1 per literal character, the SPECIAL_BYTES width
\* per named token, 1 per wrap token and per terminator.
C2_LengthIsCost == Prepared => length = Cost(prepared_text)

\* a text with a named token repeated in a word, and a wrap
C2_Witness ==
    /\ Prepared
    /\ Count(prepared_text, "<var0>") >= 2
    /\ "<FE>" \in Range(prepared_text)

\* C8: in every segment the automatic wraps alternate strictly, <FE> first,
\* then <FD>, then <FE>, and so on.
C8_WrapsAlternate ==
    Prepared =>
        \A i \in 1..Len(segs) :
            \A k \in 1..Len(segs[i].auto) :
                segs[i].auto[k] = (IF k % 2 = 1 THEN "<FE>" ELSE "<FD>")

\* a segment with three automatic wraps
C8_Witness ==
    /\ Prepared
    /\ \E i \in 1..Len(segs) : Len(segs[i].auto) >= 3

\* C9: every <br> emits exactly one <FD> costing 1 byte and never an <FE>: the
\* output is the outputs of the segments joined by single <FD> tokens (plus the
\* appended terminator), its <FD> and <FE> tokens are those of the <br> markers,
\* of the automatic wraps and of the author, and the first automatic wrap of
\* every segment is <FE>.
C9_PageBreakEmitsFD ==
    Prepared =>
        LET body == JoinWith(SegOuts, "<FD>")
            autos == Concat(SegAutos)
        IN /\ Len(segs) = Count(text, "<br>") + 1
           /\ prepared_text \in {body, Append(body, "<FF>")}
           /\ "<br>" \notin Range(prepared_text)
           /\ Count(prepared_text, "<FD>") =
                  Count(text, "<br>") + Count(autos, "<FD>") + Count(text, "<FD>")
           /\ Count(prepared_text, "<FE>") =
                  Count(autos, "<FE>") + Count(text, "<FE>")
           /\ length = Cost(Concat(SegOuts)) + Count(text, "<br>")
                           + (IF prepared_text = body THEN 0 ELSE 1)
           /\ \A i \in 1..Len(segs) :
                  segs[i].auto # <<>> => segs[i].auto[1] = "<FE>"

\* a <br> met on line 1 of the box, followed by a segment that wraps
C9_Witness ==
    /\ Prepared
    /\ Len(segs) >= 2
    /\ Len(segs[1].auto) = 1
    /\ Len(segs[2].auto) >= 1

\* C10: a segment whose words joined by single spaces are no wider than the
\* line budget gets no automatic wrap and its words are joined by single spaces.
C10_FittingSegmentNotWrapped ==
    Prepared =>
        \A i \in 1..Len(segs) :
            JoinedWidth(segs[i].words) <= max_length =>
                /\ segs[i].auto = <<>>
                /\ segs[i].out = JoinWith(segs[i].words, " ")
                /\ Range(segs[i].out) \cap WrapTokens = {}

\* a segment of several words that fits the budget exactly
C10_Witness ==
    /\ Prepared
    /\ \E i \in 1..Len(segs) :
           /\ Len(segs[i].words) >= 2
           /\ JoinedWidth(segs[i].words) = max_length

(***************************************************************************)
(* The ROM file.  rom is the sequence of the writes made so far: rom[i] is  *)
(* the sequence of the writes of iteration i of the running loop, in order. *)
(* A write of numbers (pointers, table entries) carries its bytes in val;  *)
(* a write of an encoded text or of a header carries only its length, its  *)
(* bytes being named by their kind and the iteration that wrote them.      *)
(***************************************************************************)
NumWrite(a, bytes, kind) ==
    [addr |-> a, len |-> Len(bytes), kind |-> kind, val |-> bytes]

BlobWrite(a, n, kind) ==
    [addr |-> a, len |-> n, kind |-> kind, val |-> <<>>]

\* int.to_bytes(2, "little"), for 0 <= v < 65536
ToBytes2Little(v) == <<v % 256, v \div 256>>

\* int.to_bytes(2, "little") raises OverflowError outside 0..65535
Fits2Bytes(v) == 0 <= v /\ v < 65536

\* int.to_bytes(1, "little"), for 0 <= v < 256
ToBytes1(v) == <<v>>

Covers(w, a) == w.addr <= a /\ a < w.addr + w.len

RECURSIVE LastCovering(_, _, _)
\* the last of the first j writes of batch that covers address a, 0 if none does
LastCovering(batch, j, a) ==
    IF j = 0 THEN 0
    ELSE IF Covers(batch[j], a) THEN j ELSE LastCovering(batch, j - 1, a)

RECURSIVE WrittenByFrom(_, _, _)
WrittenByFrom(log, k, a) ==
    IF k = 0 THEN 0
    ELSE IF LastCovering(log[k], Len(log[k]), a) # 0 THEN k
         ELSE WrittenByFrom(log, k - 1, a)

\* the iteration that wrote the byte at address a last, 0 if none did
WrittenBy(a) == WrittenByFrom(rom, Len(rom), a)

\* the byte of the ROM file at address a
ByteAt(a) ==
    LET k == WrittenBy(a)
    IN IF k = 0 THEN <<"original">>
       ELSE LET w == rom[k][LastCovering(rom[k], Len(rom[k]), a)]
            IN IF w.val # <<>>
               THEN <<"byte", w.val[a - w.addr + 1]>>
               ELSE <<w.kind, k, a - w.addr>>

\* the bytes of the ROM file at a, a+1, ..., a+n-1
BytesAt(a, n) == [k \in 1..n |-> ByteAt(a + k - 1)]

\* the file content a write of the byte values s leaves
AsBytes(s) == [k \in 1..Len(s) |-> <<"byte", s[k]>>]

(***************************************************************************)
(* The encoder, TranslationTable.convert_script: it maps a marked text to  *)
(* bytes or fails on an unmapped character.  The text of a record is       *)
(* represented by its encoded length and by whether the table maps it.     *)
(***************************************************************************)
ConvertScript(encoded_len, mapped) ==
    IF mapped THEN [ok |-> TRUE, len |-> encoded_len]
    ELSE [ok |-> FALSE, len |-> 0]

(***************************************************************************)
(* insert_translation, lines 170-235.                                      *)
(***************************************************************************)
MaxMessages == 3
MaxInPlace == 1
ManyMessages == 300
LateMessages == 6155
LateSteps == 100

BANK_SIZE == 16384
FIRST_DATA_BANK == 17
TABLE_BANK == 16
TABLE_OFFSET == 4096
FIRST_POINTER == 107905

\* line 180: "A morning in the Jungle.<FC>"
FirstText ==
    <<"A", " ", "m", "o", "r", "n", "i", "n", "g", " ", "i", "n", " ",
      "t", "h", "e", " ", "J", "u", "n", "g", "l", "e", ".", "<FC>">>

\* line 180: the length prepare() gives the first message (max_length defaults to 17)
FirstLength == PrepareText(FirstText, MAX_LENGTH).length

\* line 227: the address of the table entry of message i
TableAddress(i) == TABLE_BANK * BANK_SIZE + TABLE_OFFSET + i * 3

\* lines 231: the absolute position of a placement
Absolute(bank, pointer) == bank * BANK_SIZE + pointer

\* PlaceInBank with the counter reset to 0 on the overflow to the next bank
PlaceInBankResetZero(m_length, tl, bank) ==
    IF tl + m_length > BANK_SIZE
    THEN [new_bank |-> bank + 1, new_pointer |-> 0,
          total_length |-> 0, data_bank |-> bank + 1]
    ELSE [new_bank |-> bank, new_pointer |-> tl,
          total_length |-> tl + m_length, data_bank |-> bank]

\* lines 211-220: the placement of a message of length m_length
PlaceInBank(m_length, tl, bank) ==
    IF tl + m_length > BANK_SIZE
    THEN [new_bank |-> bank + 1, new_pointer |-> 0,
          total_length |-> m_length, data_bank |-> bank + 1]
    ELSE [new_bank |-> bank, new_pointer |-> tl,
          total_length |-> tl + m_length, data_bank |-> bank]

\* lines 224-226: the writes to the additional pointers
AdditionalWrites(ps, i) ==
    [k \in 1..Len(ps) |-> NumWrite(ps[k], ToBytes2Little(i * 3), "pointer")]

\* lines 222-232: the writes of message m, message_index being i
MessageWrites(m, i) ==
    <<NumWrite(m.pointer_address, ToBytes2Little(i * 3), "pointer")>>
    \o AdditionalWrites(m.additional_pointers, i)
    \o <<NumWrite(TableAddress(i), ToBytes1(m.new_bank), "table"),
         NumWrite(TableAddress(i) + 1, ToBytes2Little(m.new_pointer), "table"),
         BlobWrite(Absolute(m.new_bank, m.new_pointer), m.binary_len, "text")>>

\* the inputs of the model: lengths around the bank size, pointer addresses that
\* are fresh or that repeat the first message's, additional pointers or none
Lengths == {1, BANK_SIZE \div 2, BANK_SIZE - FirstLength, BANK_SIZE - 1, BANK_SIZE,
            BANK_SIZE + 1}
PointerChoices(i) == {FIRST_POINTER, 131072 + 2 * i}
AdditionalChoices(i) == {<<>>, <<147456 + 4 * i, 147458 + 4 * i>>}
InPlaceOffsets == {32768}
InPlaceLengths == {3}

InitInsert ==
    /\ op = "insert"
    /\ pc = "in_place"
    /\ rom = <<>>
    /\ LayoutIdle
    /\ BankIdle
    /\ RegionIdle
    /\ iter = 0
    /\ failed = 0
    /\ MergeIdle

\* lines 194-198: one entry of in_place
InsertInPlace ==
    /\ op = "insert"
    /\ pc = "in_place"
    /\ iter < MaxInPlace
    /\ iter' = iter + 1
    /\ \E offset \in InPlaceOffsets, n \in InPlaceLengths, mapped \in BOOLEAN :
          LET message_bytes == ConvertScript(n, mapped)
          IN IF message_bytes.ok
             THEN /\ rom' = Append(rom, <<BlobWrite(offset, message_bytes.len, "in_place")>>)
                  /\ UNCHANGED <<pc, failed>>
             ELSE /\ pc' = "encoding_error"
                  /\ failed' = iter'
                  /\ UNCHANGED rom
    /\ UNCHANGED <<mergeVars, op, layoutVars, bankVars, regionVars>>

\* lines 200-202
StartMessages ==
    /\ op = "insert"
    /\ pc = "in_place"
    /\ pc' = "loop"
    /\ message_index' = 0
    /\ total_length' = 0
    /\ data_bank' = FIRST_DATA_BANK
    /\ UNCHANGED <<mergeVars, op, layoutVars, rom, messages, regionVars, iter, failed>>

\* lines 204-233: one message, drawn from the given sets
InsertMessageFrom(lengths, pointers, additionals, mappeds) ==
    /\ op = "insert"
    /\ pc = "loop"
    /\ iter' = iter + 1
    /\ \E m_length \in lengths, pointer_address \in pointers,
          additional_pointers \in additionals, mapped \in mappeds :
          LET binary_text == ConvertScript(m_length, mapped)
              at == PlaceInBank(m_length, total_length, data_bank)
              m == [pointer_address |-> pointer_address,
                    additional_pointers |-> additional_pointers,
                    length |-> m_length,
                    binary_len |-> binary_text.len,
                    new_bank |-> at.new_bank,
                    new_pointer |-> at.new_pointer]
          IN IF binary_text.ok
             THEN /\ messages' = Append(messages, m)
                  /\ total_length' = at.total_length
                  /\ data_bank' = at.data_bank
                  /\ rom' = Append(rom, MessageWrites(m, message_index))
                  /\ message_index' = message_index + 1
                  /\ UNCHANGED <<pc, failed>>
             ELSE /\ pc' = "encoding_error"
                  /\ failed' = iter'
                  /\ UNCHANGED <<rom, bankVars>>
    /\ UNCHANGED <<mergeVars, op, layoutVars, regionVars>>

\* line 180 and lines 182-192: the first message is fixed, the others are the input
InsertMessage ==
    /\ message_index < MaxMessages
    /\ IF message_index = 0
       THEN InsertMessageFrom({FirstLength}, {FIRST_POINTER}, {<<>>}, BOOLEAN)
       ELSE InsertMessageFrom(Lengths, PointerChoices(message_index),
                              AdditionalChoices(message_index), BOOLEAN)

\* line 235: the messages are exhausted
FinishInsert ==
    /\ op = "insert"
    /\ pc = "loop"
    /\ message_index >= 1
    /\ pc' = "done"
    /\ UNCHANGED <<mergeVars, op, layoutVars, rom, bankVars, regionVars, iter, failed>>

(***************************************************************************)
(* insert_enemies, lines 293-327, and insert_signs, lines 330-366.         *)
(* DATA_RANGES is a list of regions <<start, end>>; current_data_range is  *)
(* the 0-based index of the source.                                         *)
(***************************************************************************)
MaxRegions == 2
MaxRecords == 3

ENEMY_HEADER_SIZE == 22
SIGN_LINES == 3
ENEMY_POINTERS_START == 196608
SIGNS_DATA_POINTERS_START == 197632
POINTER_BASE == 180224

\* the region lists of the model: lists without repetition of these regions
RegionChoices == {<<200704, 200734>>, <<204800, 204825>>, <<208896, 208956>>}

RegionLists ==
    {rs \in UNION {[1..n -> RegionChoices] : n \in 1..MaxRegions} :
        \A i, j \in 1..Len(rs) : i # j => rs[i] # rs[j]}

\* the encoded lengths of the names and of the three lines of a sign
NameLengths == {0, 3, 8}
SignLineLengths == {<<0, 0, 0>>, <<10, 10, 2>>, <<10, 10, 7>>}

RegionStart(rs, cur) == rs[cur + 1][1]
RegionEnd(rs, cur) == rs[cur + 1][2]

\* Allocate with the cursor wrapping to the first region when the list is exhausted
AllocateWrapping(rs, cur, base, total, data_size) ==
    IF total + data_size > RegionEnd(rs, cur) - RegionStart(rs, cur)
    THEN IF cur + 1 >= Len(rs)
         THEN [ok |-> TRUE, cur |-> 0, base |-> RegionStart(rs, 0), total |-> 0]
         ELSE [ok |-> TRUE, cur |-> cur + 1, base |-> RegionStart(rs, cur + 1), total |-> 0]
    ELSE [ok |-> TRUE, cur |-> cur, base |-> base, total |-> total]

\* lines 310-316 and 349-355: the region and cursor a record of data_size is given
Allocate(rs, cur, base, total, data_size) ==
    IF total + data_size > RegionEnd(rs, cur) - RegionStart(rs, cur)
    THEN IF cur + 1 >= Len(rs)
         THEN [ok |-> FALSE, cur |-> cur + 1, base |-> base, total |-> total]
         ELSE [ok |-> TRUE, cur |-> cur + 1, base |-> RegionStart(rs, cur + 1), total |-> 0]
    ELSE [ok |-> TRUE, cur |-> cur, base |-> base, total |-> total]

\* lines 318 and 357
PointerValue(base, total) == base - POINTER_BASE + total

\* lines 320-325
EnemyWrites(enemy_id, base, total, name_len) ==
    <<NumWrite(ENEMY_POINTERS_START + enemy_id * 2,
               ToBytes2Little(PointerValue(base, total)), "pointer"),
      BlobWrite(base + total, ENEMY_HEADER_SIZE, "header"),
      BlobWrite(base + total + ENEMY_HEADER_SIZE, name_len, "text")>>

\* lines 358-364
SignWrites(id, base, total, lens) ==
    <<NumWrite(SIGNS_DATA_POINTERS_START + id * 2,
               ToBytes2Little(PointerValue(base, total)), "pointer"),
      NumWrite(base + total, ToBytes1(lens[1]), "line_length"),
      BlobWrite(base + total + 1, lens[1], "text"),
      NumWrite(base + total + 1 + lens[1], ToBytes1(lens[2]), "line_length"),
      BlobWrite(base + total + 2 + lens[1], lens[2], "text"),
      NumWrite(base + total + 2 + lens[1] + lens[2], ToBytes1(lens[3]), "line_length"),
      BlobWrite(base + total + 3 + lens[1] + lens[2], lens[3], "text")>>

\* lines 299-301 and 336-338
InitRegions(command) ==
    /\ op = command
    /\ pc = "loop"
    /\ rom = <<>>
    /\ LayoutIdle
    /\ BankIdle
    /\ ranges \in RegionLists
    /\ total_size = 0
    /\ current_data_range = 0
    /\ base_offset = RegionStart(ranges, 0)
    /\ placed = <<>>
    /\ reported = FALSE
    /\ iter = 0
    /\ failed = 0
    /\ MergeIdle

InitEnemies == InitRegions("insert_enemies")
InitSigns == InitRegions("insert_signs")

\* lines 309-327 and 347-366, after the conversion: a record of data_size,
\* allocated as at, that makes the given writes when the allocation succeeds
PlaceRecord(data_size, at, writes) ==
       IF ~at.ok
       THEN /\ current_data_range' = at.cur
            /\ reported' = TRUE
            /\ pc' = "overflow"
            /\ failed' = iter'
            /\ UNCHANGED <<rom, total_size, base_offset, placed>>
       ELSE /\ current_data_range' = at.cur
            /\ base_offset' = at.base
            /\ IF Fits2Bytes(PointerValue(at.base, at.total))
               THEN /\ rom' = Append(rom, writes)
                    /\ total_size' = at.total + data_size
                    /\ placed' = Append(placed, [rec |-> iter',
                                                 start |-> at.base + at.total,
                                                 size |-> data_size,
                                                 range |-> at.cur])
                    /\ UNCHANGED <<pc, failed>>
               ELSE /\ pc' = "error"
                    /\ failed' = iter'
                    /\ total_size' = at.total
                    /\ UNCHANGED <<rom, placed>>
            /\ UNCHANGED reported

\* lines 303-327: one enemy
InsertEnemy ==
    /\ op = "insert_enemies"
    /\ pc = "loop"
    /\ iter < MaxRecords
    /\ iter' = iter + 1
    /\ \E name_len \in NameLengths, mapped \in BOOLEAN :
          LET translation == ConvertScript(name_len, mapped)
              data_size == ENEMY_HEADER_SIZE + translation.len
              at == Allocate(ranges, current_data_range, base_offset, total_size, data_size)
          IN IF translation.ok
             THEN PlaceRecord(data_size, at,
                              EnemyWrites(iter', at.base, at.total, translation.len))
             ELSE /\ pc' = "encoding_error"
                  /\ failed' = iter'
                  /\ UNCHANGED <<rom, total_size, current_data_range, base_offset,
                                 placed, reported>>
    /\ UNCHANGED <<mergeVars, op, layoutVars, bankVars, ranges>>

\* lines 340-366: one sign
InsertSign ==
    /\ op = "insert_signs"
    /\ pc = "loop"
    /\ iter < MaxRecords
    /\ iter' = iter + 1
    /\ \E lens \in SignLineLengths, mapped \in BOOLEAN :
          LET translations == [l \in 1..SIGN_LINES |-> ConvertScript(lens[l], mapped)]
              data_size == SIGN_LINES + SumSeq([l \in 1..SIGN_LINES |-> translations[l].len])
              at == Allocate(ranges, current_data_range, base_offset, total_size, data_size)
          IN IF \A l \in 1..SIGN_LINES : translations[l].ok
             THEN PlaceRecord(data_size, at, SignWrites(iter', at.base, at.total, lens))
             ELSE /\ pc' = "encoding_error"
                  /\ failed' = iter'
                  /\ UNCHANGED <<rom, total_size, current_data_range, base_offset,
                                 placed, reported>>
    /\ UNCHANGED <<mergeVars, op, layoutVars, bankVars, ranges>>

\* the loop of insert_enemies or insert_signs ends with the records
FinishRegions ==
    /\ op \in {"insert_enemies", "insert_signs"}
    /\ pc = "loop"
    /\ pc' = "done"
    /\ UNCHANGED <<mergeVars, op, layoutVars, rom, bankVars, regionVars, iter, failed>>

(***************************************************************************)
(* insert_windows, lines 238-291.                                          *)
(***************************************************************************)
WINDOW_HEADER_SIZE == 6
POINTERS_START_FULLSCREEN == 507904
POINTERS_START_OVERLAY == 509184
WINDOW_DATA_START == 512000
WINDOW_POINTER_BASE == 20480
FIRST_OVERLAY_ID == 128

WindowTextLengths == {0, 5}

InitWindows ==
    /\ op = "insert_windows"
    /\ pc = "fullscreen"
    /\ rom = <<>>
    /\ LayoutIdle
    /\ BankIdle
    /\ RegionIdle
    /\ iter = 0
    /\ failed = 0
    /\ MergeIdle

\* lines 253-261 and 275-283: the pointer and the header of a window
WindowHeadWrites(pointer_location, total) ==
    <<NumWrite(pointer_location, ToBytes2Little(WINDOW_POINTER_BASE + total), "pointer"),
      BlobWrite(WINDOW_DATA_START + total, WINDOW_HEADER_SIZE, "header")>>

\* lines 250-269 and 272-291: one window, its pointer at pointer_location
InsertWindow(pointer_location) ==
    /\ iter < MaxRecords
    /\ iter' = iter + 1
    /\ \E text_len \in WindowTextLengths, mapped \in BOOLEAN :
          LET translation == ConvertScript(text_len, mapped)
              head == WindowHeadWrites(pointer_location, total_size)
          IN IF translation.ok
             THEN /\ rom' = Append(rom,
                         head
                         \o <<BlobWrite(WINDOW_DATA_START + total_size + WINDOW_HEADER_SIZE,
                                        translation.len, "text")>>)
                  /\ total_size' = total_size + WINDOW_HEADER_SIZE + translation.len
                  /\ UNCHANGED <<pc, failed>>
             ELSE /\ rom' = Append(rom, head)
                  /\ total_size' = total_size + WINDOW_HEADER_SIZE
                  /\ pc' = "encoding_error"
                  /\ failed' = iter'
    /\ UNCHANGED <<mergeVars, op, layoutVars, bankVars, ranges, current_data_range,
                   base_offset, placed, reported>>

\* lines 249-269: a window of windows_data["fullscreen"]
InsertFullscreenWindow ==
    /\ op = "insert_windows"
    /\ pc = "fullscreen"
    /\ InsertWindow(POINTERS_START_FULLSCREEN + (iter + 1) * 2)

\* line 271: the fullscreen windows are exhausted
StartOverlay ==
    /\ op = "insert_windows"
    /\ pc = "fullscreen"
    /\ pc' = "overlay"
    /\ UNCHANGED <<mergeVars, op, layoutVars, rom, bankVars, regionVars, iter, failed>>

\* lines 271-291: a window of windows_data["overlay"]
InsertOverlayWindow ==
    /\ op = "insert_windows"
    /\ pc = "overlay"
    /\ InsertWindow(POINTERS_START_OVERLAY + (FIRST_OVERLAY_ID + iter + 1 - FIRST_OVERLAY_ID) * 2)

FinishWindows ==
    /\ op = "insert_windows"
    /\ pc = "overlay"
    /\ pc' = "done"
    /\ UNCHANGED <<mergeVars, op, layoutVars, rom, bankVars, regionVars, iter, failed>>

(***************************************************************************)
(* insert_npcs, lines 368-378.                                             *)
(***************************************************************************)
NPC_BANK_SHIFT == 245760
NPC_TERMINATOR == 255

NpcLocations == {212992, 213008}
NpcNameLengths == {0, 4}

InitNpcs ==
    /\ op = "insert_npcs"
    /\ pc = "loop"
    /\ rom = <<>>
    /\ LayoutIdle
    /\ BankIdle
    /\ RegionIdle
    /\ iter = 0
    /\ failed = 0
    /\ MergeIdle

\* lines 370-378: one NPC
InsertNpc ==
    /\ op = "insert_npcs"
    /\ pc = "loop"
    /\ iter < MaxRecords
    /\ iter' = iter + 1
    /\ \E location \in NpcLocations, name_len \in NpcNameLengths, mapped \in BOOLEAN :
          LET translation == ConvertScript(name_len, mapped)
          IN IF translation.ok
             THEN /\ rom' = Append(rom,
                       <<BlobWrite(location + NPC_BANK_SHIFT, translation.len, "text"),
                         NumWrite(location + NPC_BANK_SHIFT + translation.len,
                                  ToBytes1(NPC_TERMINATOR), "terminator")>>)
                  /\ UNCHANGED <<pc, failed>>
             ELSE /\ pc' = "encoding_error"
                  /\ failed' = iter'
                  /\ UNCHANGED rom
    /\ UNCHANGED <<mergeVars, op, layoutVars, bankVars, regionVars>>

FinishNpcs ==
    /\ op = "insert_npcs"
    /\ pc = "loop"
    /\ pc' = "done"
    /\ UNCHANGED <<mergeVars, op, layoutVars, rom, bankVars, regionVars, iter, failed>>

(***************************************************************************)
(* The insert subcommands: one of them runs, on a ROM file opened rb+.      *)
(***************************************************************************)
Init == InitInsert \/ InitWindows \/ InitEnemies \/ InitSigns \/ InitNpcs

Next ==
    \/ InsertInPlace
    \/ StartMessages
    \/ InsertMessage
    \/ FinishInsert
    \/ InsertFullscreenWindow
    \/ StartOverlay
    \/ InsertOverlayWindow
    \/ FinishWindows
    \/ InsertEnemy
    \/ InsertSign
    \/ FinishRegions
    \/ InsertNpc
    \/ FinishNpcs

Spec == Init /\ [][Next]_vars

(***************************************************************************)
(* insert_translation on a long script of short messages: in_place is      *)
(* empty, every message after the first is an empty translation, laid out  *)
(* as "<FF>", and has its own pointer address and no additional pointers.  *)
(* SpecMany runs the script from the start.  SpecLate runs it from the     *)
(* state the loop is in after LateMessages messages, which ShortRun gives  *)
(* in closed form: ShortRunReached states that the runs of SpecMany pass   *)
(* through the states of ShortRun.                                         *)
(***************************************************************************)
EmptyLength == PrepareText(<<>>, MAX_LENGTH).length

ShortPointer(i) == IF i = 0 THEN FIRST_POINTER ELSE 131072 + 2 * i

\* the message of index i of the short script, as placed while bank 0x11 lasts
ShortMessage(i) ==
    [pointer_address |-> ShortPointer(i),
     additional_pointers |-> <<>>,
     length |-> IF i = 0 THEN FirstLength ELSE EmptyLength,
     binary_len |-> IF i = 0 THEN FirstLength ELSE EmptyLength,
     new_bank |-> FIRST_DATA_BANK,
     new_pointer |-> IF i = 0 THEN 0 ELSE FirstLength + (i - 1) * EmptyLength]

\* the state of the loop after the first n messages of the short script
ShortRun(n) ==
    [messages |-> [i \in 1..n |-> ShortMessage(i - 1)],
     rom |-> [i \in 1..n |-> MessageWrites(ShortMessage(i - 1), i - 1)],
     message_index |-> n,
     total_length |-> IF n = 0 THEN 0 ELSE FirstLength + (n - 1) * EmptyLength,
     data_bank |-> FIRST_DATA_BANK]

InitShort(n) ==
    /\ op = "insert"
    /\ pc = "loop"
    /\ rom = ShortRun(n).rom
    /\ LayoutIdle
    /\ messages = ShortRun(n).messages
    /\ message_index = n
    /\ total_length = ShortRun(n).total_length
    /\ data_bank = FIRST_DATA_BANK
    /\ RegionIdle
    /\ iter = n
    /\ failed = 0
    /\ MergeIdle

InsertShortMessage(limit) ==
    /\ message_index < limit
    /\ IF message_index = 0
       THEN InsertMessageFrom({FirstLength}, {FIRST_POINTER}, {<<>>}, {TRUE})
       ELSE InsertMessageFrom({EmptyLength}, {ShortPointer(message_index)}, {<<>>}, {TRUE})

InitMany == InitShort(0)
NextMany == InsertShortMessage(ManyMessages)
SpecMany == InitMany /\ [][NextMany]_vars

InitLate == InitShort(LateMessages)
NextLate == InsertShortMessage(LateMessages + LateSteps)
SpecLate == InitLate /\ [][NextLate]_vars

\* the messages whose table entries lie in bank 0x10, from offset 0x1000 to its end
TableCapacity == (BANK_SIZE - TABLE_OFFSET) \div 3

\* SpecTable runs the short script from the state the loop is in when the table
\* has filled bank 0x10
InitTable == InitShort(TableCapacity)
NextTable == InsertShortMessage(TableCapacity + LateSteps)
SpecTable == InitTable /\ [][NextTable]_vars

\* the runs of the short script pass through the states of ShortRun
ShortRunReached ==
    /\ messages = ShortRun(message_index).messages
    /\ rom = ShortRun(message_index).rom
    /\ total_length = ShortRun(message_index).total_length
    /\ data_bank = ShortRun(message_index).data_bank
    /\ iter = message_index

(***************************************************************************)
(* Properties of the insert subcommands.                                   *)
(***************************************************************************)
Regional == op \in {"insert_enemies", "insert_signs"}

\* C3: in insert_translation no record's new_pointer + length exceeds 0x4000: a
\* record either follows the previous one in the same bank or, when it would
\* overflow, starts at offset 0 of the next bank, and is never split across banks.
C3_RecordWithinBank ==
    op = "insert" =>
        \A i \in 1..Len(messages) :
            /\ messages[i].new_pointer + messages[i].length <= BANK_SIZE
            /\ i > 1 =>
                  \/ /\ messages[i].new_bank = messages[i - 1].new_bank
                     /\ messages[i].new_pointer =
                            messages[i - 1].new_pointer + messages[i - 1].length
                  \/ /\ messages[i].new_bank = messages[i - 1].new_bank + 1
                     /\ messages[i].new_pointer = 0

\* C4: in insert_enemies and insert_signs every record written lies entirely
\* inside the region that is current when it is written.
C4_RecordInsideRegion ==
    Regional =>
        \A k \in 1..Len(placed) :
            /\ RegionStart(ranges, placed[k].range) <= placed[k].start
            /\ placed[k].start + placed[k].size <= RegionEnd(ranges, placed[k].range)

PointersOf(i) == <<messages[i].pointer_address>> \o messages[i].additional_pointers

\* the two bytes at p and the two bytes at q share no address
Apart(p, q) == p + 1 < q \/ q + 1 < p

\* the pointer addresses of message i lie below the table and the texts, and no
\* later message writes a pointer over them
PointersDistinct(i) ==
    /\ \A k \in 1..Len(PointersOf(i)) : PointersOf(i)[k] + 1 < TableAddress(0)
    /\ \A k, l \in 1..Len(PointersOf(i)) :
          k # l => Apart(PointersOf(i)[k], PointersOf(i)[l])
    /\ \A j \in (i + 1)..Len(messages) :
          \A k \in 1..Len(PointersOf(i)), l \in 1..Len(PointersOf(j)) :
              Apart(PointersOf(i)[k], PointersOf(j)[l])

\* the writes of message i: the in_place entries come first, one iteration each
WritesOf(i) == rom[Len(rom) - Len(messages) + i]

\* the ROM holds, for the message of index i - 1: 3 * (i - 1) at its pointers,
\* its bank and offset in its table entry, its text at bank * 0x4000 + offset
PointersAndTableHold(i) ==
    LET m == messages[i]
        index == i - 1
    IN /\ \A k \in 1..Len(PointersOf(i)) :
              BytesAt(PointersOf(i)[k], 2) = AsBytes(<<(index * 3) % 256, (index * 3) \div 256>>)
       /\ BytesAt(TableAddress(index), 3) =
              AsBytes(<<m.new_bank, m.new_pointer % 256, m.new_pointer \div 256>>)
       /\ \E k \in 1..Len(WritesOf(i)) :
              /\ WritesOf(i)[k].kind = "text"
              /\ WritesOf(i)[k].addr = m.new_bank * BANK_SIZE + m.new_pointer
              /\ WritesOf(i)[k].len = m.binary_len

\* The statement of C6 for all the messages of a script at once; it holds of the
\* scripts of Spec, whose table entries stay in bank 0x10.
PointersAndTableOfAll ==
    op = "insert" =>
        \A i \in 1..Len(messages) : PointersDistinct(i) => PointersAndTableHold(i)

\* C6: once a message of index i is placed, its pointer addresses being distinct
\* and outside the table and text areas, the 2-byte little-endian value 3*i is at
\* its pointer_address and at each of its additional_pointers, and the 3-byte
\* table entry at 0x10*0x4000 + 0x1000 + 3*i holds its bank and its little-endian
\* offset, the position bank*0x4000 + offset where its text is written.
C6_PointersAndTable ==
    (op = "insert" /\ messages # <<>> /\ PointersDistinct(Len(messages)))
        => PointersAndTableHold(Len(messages))

\* C7: when the encoder fails on a record the run stops and no write of that
\* record, nor of a later one, has been made.
C7_NoPartialCommit ==
    pc = "encoding_error" => Len(rom) < failed

(***************************************************************************)
(* Further properties of prepare().                                        *)
(***************************************************************************)
\* the tokens prepare() puts between two words of a segment
Separators == {" "} \cup WrapTokens

\* s begins with the tokens of p
StartsWith(s, p) == Len(s) >= Len(p) /\ SubSeq(s, 1, Len(p)) = p

RECURSIVE WordsWhole(_, _, _, _)
\* out is the words from k on, each whole and in order, every word after the
\* first of the segment preceded by exactly one separator, which is a wrap
\* token when the word is wider than the budget
WordsWhole(out, words, k, budget) ==
    IF k > Len(words) THEN out = <<>>
    ELSE LET word == words[k]
             body == IF k = 1 THEN out ELSE Tail(out)
         IN /\ k > 1 => /\ out # <<>>
                        /\ Head(out) \in Separators
                        /\ WordCharWidth(word) > budget => Head(out) \in WrapTokens
            /\ StartsWith(body, word)
            /\ WordsWhole(SubSeq(body, Len(word) + 1, Len(body)), words, k + 1, budget)

\* C11: prepare() never breaks a word.  The output is the outputs of the
\* segments joined by the page breaks, plus the appended terminator; the output
\* of a segment is its whitespace-delimited words, whole, unmodified and in
\* order, with one space or one wrap token between two of them; a word wider
\* than the line budget is placed as it is, with nothing before it when it is
\* the first of its segment (the line is empty) and with one wrap token before
\* it when a word precedes it (the line holds that word).
C11_WordsNeverBroken ==
    Prepared =>
        /\ prepared_text \in {JoinWith(SegOuts, "<FD>"),
                               Append(JoinWith(SegOuts, "<FD>"), "<FF>")}
        /\ \A i \in 1..Len(segs) :
               /\ segs[i].words = SplitWords(Lines(text)[i], <<>>)
               /\ WordsWhole(segs[i].out, segs[i].words, 1, max_length)

\* a segment whose first two words are both wider than the line budget and of
\* several tokens
C11_Witness ==
    /\ Prepared
    /\ \E i \in 1..Len(segs) :
           /\ Len(segs[i].words) >= 2
           /\ \A k \in 1..2 : /\ WordCharWidth(segs[i].words[k]) > max_length
                                /\ Len(segs[i].words[k]) >= 2

(***************************************************************************)
(* prepare() run twice: a TextString is constructed on a text and          *)
(* prepared, then a TextString is constructed on the returned text, with   *)
(* any line budget, and prepared (lines 67-77 and 79-167, twice).          *)
(***************************************************************************)
AgainTexts == SeqsUpTo(Alphabet, MaxAgainLen)

InitAgain ==
    /\ op = "prepare"
    /\ pc = "constructed"
    /\ text \in AgainTexts
    /\ max_length \in Budgets
    /\ prepared_text = <<>>
    /\ length = 0
    /\ segs = <<>>
    /\ rom = <<>>
    /\ BankIdle
    /\ RegionIdle
    /\ iter = 0
    /\ failed = 0
    /\ MergeIdle

\* TextString(pointer_address, prepared_text, budget).prepare()
PrepareAgain ==
    /\ op = "prepare"
    /\ pc = "prepared"
    /\ text' = prepared_text
    /\ \E budget \in Budgets :
          LET r == PrepareText(prepared_text, budget)
          IN /\ max_length' = budget
             /\ prepared_text' = r.text
             /\ length' = r.length
             /\ segs' = r.segs
    /\ pc' = "prepared_again"
    /\ UNCHANGED <<mergeVars, op, rom, bankVars, regionVars, iter, failed>>

NextAgain == Prepare \/ PrepareAgain

SpecAgain == InitAgain /\ [][NextAgain]_vars

PreparedAgain == op = "prepare" /\ pc = "prepared_again"

\* C12: terminator idempotence.  prepare() run on the output of a previous
\* prepare(), with any line budget, returns a text that ends in the same
\* terminator token as that output, holds as many <FF> and as many <FC> tokens
\* as it (none is appended) and has the length of its own tokens (no byte is
\* counted for a terminator that is not there); and prepare() run on a text the
\* author ended in <FC> returns a text whose last token is <FC>, with the <FF>
\* tokens of the input and no other.
C12_TerminatorIdempotent ==
    /\ PreparedAgain =>
           /\ EndsWithTerminator(text)
           /\ prepared_text # <<>>
           /\ prepared_text[Len(prepared_text)] = text[Len(text)]
           /\ Count(prepared_text, "<FF>") = Count(text, "<FF>")
           /\ Count(prepared_text, "<FC>") = Count(text, "<FC>")
           /\ length = Cost(prepared_text)
    /\ (Prepared /\ Strip(text) # <<>> /\ Strip(text)[Len(Strip(text))] = "<FC>") =>
           /\ prepared_text[Len(prepared_text)] = "<FC>"
           /\ Count(prepared_text, "<FF>") = Count(text, "<FF>")
           /\ length = Cost(prepared_text)

\* prepare() run again, with a smaller budget, on an output that ends in the
\* author's <FC>: the words are laid out anew and the terminator is kept
C12_Witness ==
    /\ PreparedAgain
    /\ text[Len(text)] = "<FC>"
    /\ " " \in Range(text)
    /\ prepared_text # text
    /\ "<FE>" \in Range(prepared_text)

(***************************************************************************)
(* Properties of prepare(), continued.                                     *)
(***************************************************************************)
\* a text with no word and no <br>: the empty string or whitespace only
Blank(t) == Range(t) \subseteq Whitespace

\* C13: for any line budget, a text with no words and no page-break marker
\* (the empty string, or whitespace only) is laid out as exactly the single
\* default terminator <FF>, with length 1.
C13_BlankIsDefaultTerminator ==
    (Prepared /\ Blank(text)) => /\ prepared_text = <<"<FF>">>
                                 /\ length = 1

\* a text of several spaces, prepared
C13_Witness ==
    /\ Prepared
    /\ Blank(text)
    /\ Len(text) >= 2

(***************************************************************************)
(* Properties of insert_translation, continued.                            *)
(***************************************************************************)
\* the lengths of the records placed in bank b, 0 for the records of other banks
LengthsInBank(b) ==
    [i \in 1..Len(messages) |->
        IF messages[i].new_bank = b THEN messages[i].length ELSE 0]

\* C14: in insert_translation, after each record is processed total_length is
\* the sum of the lengths of the records placed so far in the current bank,
\* each counted once, also right after an overflow to a new bank; the first
\* record of a bank is at offset 0 and a record that follows another in the
\* same bank starts where that one ends: next offset = previous offset +
\* previous length, so that their byte ranges are adjacent.
C14_CursorIsSumInBank ==
    op = "insert" =>
        /\ total_length = SumSeq(LengthsInBank(data_bank))
        /\ messages # <<>> => messages[Len(messages)].new_bank = data_bank
        /\ \A i \in 1..Len(messages) :
               IF i > 1 /\ messages[i].new_bank = messages[i - 1].new_bank
               THEN /\ messages[i].new_pointer =
                          messages[i - 1].new_pointer + messages[i - 1].length
                    /\ Absolute(messages[i].new_bank, messages[i].new_pointer) =
                          Absolute(messages[i - 1].new_bank, messages[i - 1].new_pointer)
                              + messages[i - 1].length
               ELSE messages[i].new_pointer = 0

\* a record that overflowed to a new bank, followed by a record in that bank
C14_Witness ==
    /\ op = "insert"
    /\ \E i \in 2..Len(messages) :
           /\ messages[i].new_bank = messages[i - 1].new_bank
           /\ messages[i].new_bank > FIRST_DATA_BANK
           /\ messages[i - 1].new_pointer = 0
           /\ messages[i].new_pointer = messages[i - 1].length
           /\ total_length = messages[i - 1].length + messages[i].length

RECURSIVE SplitAtWraps(_, _)
\* the runs of s between its <FE> and <FD> tokens, cur being the run in progress
SplitAtWraps(s, cur) ==
    IF s = <<>> THEN <<cur>>
    ELSE IF Head(s) \in WrapTokens THEN <<cur>> \o SplitAtWraps(Tail(s), <<>>)
    ELSE SplitAtWraps(Tail(s), Append(cur, Head(s)))

\* the visual lines of the output: the maximal runs between the wrap tokens, the
\* page-break tokens and the terminator, which is the last token of the output
VisualLines ==
    SplitAtWraps(SubSeq(prepared_text, 1, Len(prepared_text) - 1), <<>>)

\* a visual line is no wider than the budget, spaces and expanded token widths
\* counted, unless it is a single word that is itself wider than the budget
LineWithinBudget(line) ==
    \/ Cost(line) <= max_length
    \/ line # <<>> /\ " " \notin Range(line)

\* in the output of every segment a wrap token stands between two words: the
\* tokens next to it are tokens of words, not spaces and not wrap tokens
OneWrapBetweenWords ==
    \A i \in 1..Len(segs) :
        LET out == segs[i].out
        IN \A k \in 1..Len(out) :
               out[k] \in WrapTokens =>
                   /\ 1 < k /\ k < Len(out)
                   /\ out[k - 1] \notin Separators
                   /\ out[k + 1] \notin Separators

\* the author wrote the final terminator as a word of its own
TerminatorIsOwnWord ==
    LET s == Strip(text)
    IN /\ Len(s) >= 2
       /\ s[Len(s)] \in Terminators
       /\ s[Len(s) - 1] \in Whitespace

\* C15 as stated: for every input without authored wrap tokens, every visual
\* line of the output is no wider than the line budget unless it is a single
\* word wider than the budget, no line starts or ends with an inserted space and
\* at most one wrap token is emitted between two consecutive words.
C15_LineWithinBudget ==
    (Prepared /\ Range(text) \cap WrapTokens = {}) =>
        /\ \A n \in 1..Len(VisualLines) :
               LET line == VisualLines[n]
               IN /\ LineWithinBudget(line)
                  /\ line # <<>> => Head(line) # " " /\ line[Len(line)] # " "
        /\ OneWrapBetweenWords

\* C15 amended: as C15, except that the last visual line ends with the
\* separating space when the author wrote the final terminator as a word of its
\* own, after whitespace, and that word fits the line: no other line, and no
\* line of any other text, starts or ends with an inserted space.
C15_LineWithinBudgetUnlessOwnTerminator ==
    (Prepared /\ Range(text) \cap WrapTokens = {}) =>
        /\ \A n \in 1..Len(VisualLines) :
               LET line == VisualLines[n]
               IN /\ LineWithinBudget(line)
                  /\ line # <<>> =>
                         /\ Head(line) # " "
                         /\ line[Len(line)] = " " =>
                                /\ n = Len(VisualLines)
                                /\ TerminatorIsOwnWord
        /\ OneWrapBetweenWords

\* a text that wraps, whose last line ends with the space that separates the
\* author's own final terminator from the last word and, with that terminator,
\* fills the budget exactly
C15_Witness ==
    /\ Prepared
    /\ Range(text) \cap WrapTokens = {}
    /\ \E i \in 1..Len(segs) : segs[i].auto # <<>>
    /\ TerminatorIsOwnWord
    /\ LET line == VisualLines[Len(VisualLines)]
       IN /\ Len(line) >= 2
          /\ line[Len(line)] = " "
          /\ Cost(line) + 1 = max_length

(***************************************************************************)
(* The pointer table and the texts of insert_translation.                  *)
(***************************************************************************)
\* the writes w and v have a byte in common
Overlap(w, v) ==
    /\ w.len > 0
    /\ v.len > 0
    /\ w.addr < v.addr + v.len
    /\ v.addr < w.addr + w.len

\* one of w and v is a write of a table entry and the other the write of a text
TableAndText(w, v) ==
    \/ w.kind = "table" /\ v.kind = "text"
    \/ w.kind = "text" /\ v.kind = "table"

\* C16: in insert_translation, for any number of records, the 3-byte table
\* entries written at 0x10*0x4000 + 0x1000 + 3*i never overlap the bytes of a
\* text written at bank*0x4000 + offset: when a message has been placed, its
\* table entry shares no byte with a text written so far in the run and its text
\* shares no byte with a table entry written so far, its own included.
C16_TableApartFromTexts ==
    (op = "insert" /\ messages # <<>>) =>
        LET last == WritesOf(Len(messages))
        IN \A k \in 1..Len(rom) :
               \A a \in 1..Len(last), b \in 1..Len(rom[k]) :
                   TableAndText(last[a], rom[k][b]) => ~Overlap(last[a], rom[k][b])

(***************************************************************************)
(* merge, lines 479-563: the records of <inputfile> are merged, one by     *)
(* one, into the records of <existing> found at the same location.  A      *)
(* record is [original, translation, pointer_location]; a file is a        *)
(* function from its sections to functions from locations to records; the  *)
(* sections are met in the order of the files.                             *)
(***************************************************************************)
SectionOrder == <<"script", "combat">>
Sections == Range(SectionOrder)
Locations == {4660}

ExistingRecords ==
    [original : {"old"}, translation : {"TODO", "Hello"}, pointer_location : {0, 5}]
NewRecords ==
    [original : {"old", "new"}, translation : {"TODO", "Hello", "Hallo"},
     pointer_location : {0, 5, 6}]

\* the sections of a file whose records are drawn from Records
SectionsOf(Records) == UNION {[locs -> Records] : locs \in SUBSET Locations}
Files(Records) == [Sections -> SectionsOf(Records)]

\* the answers the user may give to input("Which to keep? (1/[2]) ")
Answers == {"1", "2", ""}

\* lines 505, 534, 546: m["translation"][0:4] == "TODO"
IsTodo(translation) == translation = "TODO"

RECURSIVE PairsFrom(_, _)
\* lines 491-492: the pairs <<section2, loc2>> of data_new from section k on
PairsFrom(data, k) ==
    IF k > Len(SectionOrder) THEN <<>>
    ELSE LET section2 == SectionOrder[k]
             RECURSIVE Locs(_)
             Locs(S) == IF S = {} THEN <<>>
                        ELSE LET loc2 == CHOOSE x \in S : \A y \in S : x <= y
                             IN <<<<section2, loc2>>>> \o Locs(S \ {loc2})
         IN Locs(DOMAIN data[section2]) \o PairsFrom(data, k + 1)

\* lines 496-501: the sections of data_existing that hold loc2, in order
FoundSections(data, loc2) ==
    SelectSeq(SectionOrder, LAMBDA section1 : loc2 \in DOMAIN data[section1])

\* lines 509-524: the original strings differ and the user is asked
MergeOriginal(element1, element2, keep) ==
    IF element1.original # element2.original
    THEN [element |-> IF keep = "1" THEN element1
                      ELSE [element1 EXCEPT !.original = element2.original],
          prompts |-> {"original"}]
    ELSE [element |-> element1, prompts |-> {}]

\* lines 526-537: line 527 is a comparison, which assigns nothing
MergePointer(element1, element2, keep) ==
    IF element1.pointer_location = 0 /\ element2.pointer_location # 0
    THEN [element |-> element1, prompts |-> {}]
    ELSE IF element1.pointer_location # 0 /\ element2.pointer_location # 0
    THEN [element |-> IF keep = "1" THEN element1
                      ELSE [element1 EXCEPT !.pointer_location = element2.pointer_location],
          prompts |-> {"pointer"}]
    ELSE [element |-> element1, prompts |-> {}]

\* lines 539-550
MergeTranslation(element1, element2, keep) ==
    IF IsTodo(element1.translation) /\ ~IsTodo(element2.translation)
    THEN [element |-> [element1 EXCEPT !.translation = element2.translation],
          prompts |-> {}]
    ELSE IF ~IsTodo(element1.translation) /\ ~IsTodo(element2.translation)
    THEN [element |-> IF keep = "1" THEN element1
                      ELSE [element1 EXCEPT !.translation = element2.translation],
          prompts |-> {"translation"}]
    ELSE [element |-> element1, prompts |-> {}]

\* lines 503-550: the record that replaces element1 of section1, and the prompts
MergeElement(section1, element1, element2, keep_original, keep_pointer, keep_translation) ==
    IF element1 # element2
    THEN IF /\ section1 = "script"
            /\ IsTodo(element1.translation)
            /\ element1.pointer_location = 0
         THEN [element |-> element2, prompts |-> {}]
         ELSE LET a == MergeOriginal(element1, element2, keep_original)
                  b == MergePointer(a.element, element2, keep_pointer)
                  c == MergeTranslation(b.element, element2, keep_translation)
              IN [element |-> c.element,
                  prompts |-> a.prompts \cup b.prompts \cup c.prompts]
    ELSE [element |-> element1, prompts |-> {}]

\* lines 483-489: the two files are loaded
InitMerge ==
    /\ op = "merge"
    /\ pc = "merging"
    /\ rom = <<>>
    /\ LayoutIdle
    /\ BankIdle
    /\ RegionIdle
    /\ iter = 0
    /\ failed = 0
    /\ data_existing \in Files(ExistingRecords)
    /\ data_new \in Files(NewRecords)
    /\ pending = PairsFrom(data_new, 1)
    /\ merged = <<>>

\* lines 491-554: one pair <<section2, loc2>> of data_new
MergeRecord ==
    /\ op = "merge"
    /\ pc = "merging"
    /\ pending # <<>>
    /\ pending' = Tail(pending)
    /\ LET section2 == Head(pending)[1]
           loc2 == Head(pending)[2]
           found == FoundSections(data_existing, loc2)
       IN IF found # <<>>
          THEN \E keep_original, keep_pointer, keep_translation \in Answers :
                  LET section1 == Head(found)
                      element1 == data_existing[section1][loc2]
                      element2 == data_new[section2][loc2]
                      r == MergeElement(section1, element1, element2,
                                        keep_original, keep_pointer, keep_translation)
                  IN /\ data_existing' =
                            [data_existing EXCEPT ![section1][loc2] = r.element]
                     /\ merged' = Append(merged,
                            [section1 |-> section1, section2 |-> section2, loc |-> loc2,
                             element1 |-> element1, element2 |-> element2,
                             result |-> r.element, prompts |-> r.prompts])
          ELSE UNCHANGED <<data_existing, merged>>
    /\ UNCHANGED <<op, pc, layoutVars, rom, bankVars, regionVars, iter, failed, data_new>>

\* lines 556-563: data_existing is written to the output file
FinishMerge ==
    /\ op = "merge"
    /\ pc = "merging"
    /\ pending = <<>>
    /\ pc' = "done"
    /\ UNCHANGED <<mergeVars, op, layoutVars, rom, bankVars, regionVars, iter, failed>>

NextMerge == MergeRecord \/ FinishMerge

SpecMerge == InitMerge /\ [][NextMerge]_vars

\* C17: in merge, whenever an incoming record differs from the existing record
\* at the same location, the existing record has pointer_location 0 and the
\* incoming record a non-zero pointer_location, the merged record has the
\* incoming pointer_location, in every section and whether or not the existing
\* translation is a TODO placeholder, and the user is not asked about pointers.
C17_MergeTakesIncomingPointer ==
    op = "merge" =>
        \A k \in 1..Len(merged) :
            LET m == merged[k]
            IN (/\ m.element1 # m.element2
                /\ m.element1.pointer_location = 0
                /\ m.element2.pointer_location # 0) =>
                   /\ m.result.pointer_location = m.element2.pointer_location
                   /\ "pointer" \notin m.prompts

====
